---- MODULE Spec2Model ----
(***************************************************************************)
(* Model of src/app.py: the recipe JSON recovery parser, the step-numbering *)
(* normalizer, the schema.org extractor and the session's recipe           *)
(* collection (extract batch, remove, backup export / import).             *)
(*                                                                         *)
(* Text is a sequence of one-character strings.  A JSON value (what        *)
(* json.loads returns and json.dumps prints) is a record [t, v]:           *)
(*   [t |-> "str",  v |-> <<chars>>]      a Python str                       *)
(*   [t |-> "num",  v |-> n]              a Python int, n \in Nat            *)
(*   [t |-> "null", v |-> 0]              None                              *)
(*   [t |-> "bool", v |-> TRUE / FALSE]   True / False                      *)
(*   [t |-> "arr",  v |-> <<values>>]     a Python list                     *)
(*   [t |-> "obj",  v |-> <<[k, v]>>]     a Python dict, in insertion order *)
(* The JSON grammar modelled: strings with the escapes \" \\ \n, unsigned  *)
(* integers, null / true / false, arrays, objects, blank and newline as    *)
(* whitespace.                                                             *)
(***************************************************************************)
EXTENDS Integers, Sequences, FiniteSets, TLC

\* ------------------------------------------------------------------ text

QUOTE == "\""
BSLASH == "\\"
NL == "\n"
SP == " "
Digits == {"0", "1", "2", "3", "4", "5", "6", "7", "8", "9"}
Whitespace == {SP, NL}

DigitVal(c) ==
    CASE c = "0" -> 0 [] c = "1" -> 1 [] c = "2" -> 2 [] c = "3" -> 3
      [] c = "4" -> 4 [] c = "5" -> 5 [] c = "6" -> 6 [] c = "7" -> 7
      [] c = "8" -> 8 [] c = "9" -> 9

DigitChar(n) == CHOOSE c \in Digits : DigitVal(c) = n

\* s[a:b] of Python for 0-based a, b with 0 <= a and b <= len(s)
Slice(s, a, b) == IF b <= a THEN <<>> ELSE SubSeq(s, a + 1, b)

\* s.startswith(p)
StartsWith(s, p) == Len(s) >= Len(p) /\ SubSeq(s, 1, Len(p)) = p

\* s.startswith(p, i) for a 0-based i
StartsWithAt(s, p, i) == Len(s) >= i + Len(p) /\ SubSeq(s, i + 1, i + Len(p)) = p

\* s.find(p): the 0-based index of the first occurrence of p, -1 if none
Find(s, p) ==
    LET hits == {i \in 0..Len(s) : StartsWithAt(s, p, i)}
    IN  IF hits = {} THEN -1 ELSE CHOOSE i \in hits : \A j \in hits : i <= j

\* s.rfind(p): the 0-based index of the last occurrence of p, -1 if none
RFind(s, p) ==
    LET hits == {i \in 0..Len(s) : StartsWithAt(s, p, i)}
    IN  IF hits = {} THEN -1 ELSE CHOOSE i \in hits : \A j \in hits : i >= j

\* s.strip()
Strip(s) ==
    LET keep == {i \in 1..Len(s) : s[i] \notin Whitespace}
    IN  IF keep = {} THEN <<>>
        ELSE LET lo == CHOOSE i \in keep : \A j \in keep : i <= j
                 hi == CHOOSE i \in keep : \A j \in keep : i >= j
             IN  SubSeq(s, lo, hi)

\* the 1-based indices of s, in order
Indices(s) == [i \in 1..Len(s) |-> i]

\* s without the characters at the 1-based indices in drop
DeleteAt(s, drop) ==
    LET kept == SelectSeq(Indices(s), LAMBDA i : i \notin drop)
    IN  [j \in 1..Len(kept) |-> s[kept[j]]]

\* s.replace(c + d, d) for two different characters c and d: occurrences of
\* c + d cannot overlap, so the single left-to-right pass drops every c
\* that stands directly before a d
ReplaceDropFirst(s, c, d) ==
    DeleteAt(s, {i \in 1..Len(s) : s[i] = c /\ i < Len(s) /\ s[i + 1] = d})

\* s.split(sep)[0]
SplitFirst(s, sep) ==
    LET k == Find(s, sep) IN IF k = -1 THEN s ELSE Slice(s, 0, k)

\* s.lower() over the letters the model uses
LowerChar(c) ==
    CASE c = "A" -> "a" [] c = "B" -> "b" [] c = "C" -> "c" [] c = "M" -> "m"
      [] c = "T" -> "t" [] OTHER -> c

Lower(s) == [i \in 1..Len(s) |-> LowerChar(s[i])]

\* the length of the longest run of characters of set cs that starts at 1-based i
RECURSIVE RunLen(_, _, _)
RunLen(s, i, cs) ==
    IF i <= Len(s) /\ s[i] \in cs THEN 1 + RunLen(s, i + 1, cs) ELSE 0

\* ------------------------------------------------------------ JSON values

JNull == [t |-> "null", v |-> 0]
JStr(s) == [t |-> "str", v |-> s]
JNum(n) == [t |-> "num", v |-> n]
JBool(b) == [t |-> "bool", v |-> b]
JArr(a) == [t |-> "arr", v |-> a]
JObj(o) == [t |-> "obj", v |-> o]

\* a == b of Python on two JSON values (dicts compare in insertion order
\* here; the model never builds two dicts with the same pairs in two orders)
RECURSIVE JEq(_, _)
JEq(a, b) ==
    /\ a.t = b.t
    /\ CASE a.t = "arr" ->
              /\ Len(a.v) = Len(b.v)
              /\ \A i \in 1..Len(a.v) : JEq(a.v[i], b.v[i])
         [] a.t = "obj" ->
              /\ Len(a.v) = Len(b.v)
              /\ \A i \in 1..Len(a.v) : a.v[i].k = b.v[i].k /\ JEq(a.v[i].v, b.v[i].v)
         [] OTHER -> a.v = b.v

\* Python truthiness of a JSON value
Truthy(x) ==
    CASE x.t = "null" -> FALSE
      [] x.t = "bool" -> x.v
      [] x.t = "num" -> x.v # 0
      [] OTHER -> Len(x.v) > 0

\* key in d, for a dict d
HasKey(d, k) == \E i \in 1..Len(d.v) : d.v[i].k = k

\* d.get(k, default), for a dict d
Get(d, k, default) ==
    IF HasKey(d, k)
    THEN d.v[CHOOSE i \in 1..Len(d.v) : d.v[i].k = k].v
    ELSE default

\* d[k] = x on the pairs of a dict: a present key keeps its place
DictSet(pairs, k, x) ==
    IF \E i \in 1..Len(pairs) : pairs[i].k = k
    THEN [i \in 1..Len(pairs) |-> IF pairs[i].k = k THEN [k |-> k, v |-> x] ELSE pairs[i]]
    ELSE Append(pairs, [k |-> k, v |-> x])

RECURSIVE NatVal(_, _)
NatVal(ds, acc) ==
    IF Len(ds) = 0 THEN acc ELSE NatVal(Tail(ds), 10 * acc + DigitVal(ds[1]))

RECURSIVE NatToChars(_)
NatToChars(n) ==
    IF n < 10 THEN <<DigitChar(n)>> ELSE NatToChars(n \div 10) \o <<DigitChar(n % 10)>>

\* ------------------------------------------------------------- json.loads

PFail == [ok |-> FALSE, val |-> JNull, pos |-> 0]
POk(x, p) == [ok |-> TRUE, val |-> x, pos |-> p]

SkipWs(s, i) == i + RunLen(s, i, Whitespace)

\* the body of a string from 1-based i, just after the opening quote
RECURSIVE ScanString(_, _, _)
ScanString(s, i, acc) ==
    IF i > Len(s) THEN PFail
    ELSE IF s[i] = QUOTE THEN POk(JStr(acc), i + 1)
    ELSE IF s[i] = NL THEN PFail
    ELSE IF s[i] = BSLASH
         THEN IF i + 1 > Len(s) THEN PFail
              ELSE IF s[i + 1] = QUOTE THEN ScanString(s, i + 2, Append(acc, QUOTE))
              ELSE IF s[i + 1] = BSLASH THEN ScanString(s, i + 2, Append(acc, BSLASH))
              ELSE IF s[i + 1] = "n" THEN ScanString(s, i + 2, Append(acc, NL))
              ELSE PFail
    ELSE ScanString(s, i + 1, Append(acc, s[i]))

ScanNumber(s, i) ==
    LET n == IF s[i] = "0" THEN 1 ELSE RunLen(s, i, Digits)
    IN  POk(JNum(NatVal(SubSeq(s, i, i + n - 1), 0)), i + n)

RECURSIVE ParseValue(_, _)
RECURSIVE ParseElems(_, _, _)
RECURSIVE ParseMembers(_, _, _)

\* a value that starts at 1-based i
ParseValue(s, i) ==
    IF i > Len(s) THEN PFail
    ELSE IF s[i] = QUOTE THEN ScanString(s, i + 1, <<>>)
    ELSE IF s[i] = "{"
         THEN LET j == SkipWs(s, i + 1)
              IN  IF j <= Len(s) /\ s[j] = "}" THEN POk(JObj(<<>>), j + 1)
                  ELSE ParseMembers(s, j, <<>>)
    ELSE IF s[i] = "["
         THEN LET j == SkipWs(s, i + 1)
              IN  IF j <= Len(s) /\ s[j] = "]" THEN POk(JArr(<<>>), j + 1)
                  ELSE ParseElems(s, j, <<>>)
    ELSE IF StartsWithAt(s, <<"n", "u", "l", "l">>, i - 1) THEN POk(JNull, i + 4)
    ELSE IF StartsWithAt(s, <<"t", "r", "u", "e">>, i - 1) THEN POk(JBool(TRUE), i + 4)
    ELSE IF StartsWithAt(s, <<"f", "a", "l", "s", "e">>, i - 1) THEN POk(JBool(FALSE), i + 5)
    ELSE IF s[i] \in Digits THEN ScanNumber(s, i)
    ELSE PFail

\* the elements of an array from 1-based i, up to and including the closing bracket
ParseElems(s, i, acc) ==
    LET e == ParseValue(s, i)
    IN  IF ~e.ok THEN PFail
        ELSE LET j == SkipWs(s, e.pos)
                 got == Append(acc, e.val)
             IN  IF j > Len(s) THEN PFail
                 ELSE IF s[j] = "]" THEN POk(JArr(got), j + 1)
                 ELSE IF s[j] = "," THEN ParseElems(s, SkipWs(s, j + 1), got)
                 ELSE PFail

\* the members of an object from 1-based i, up to and including the closing brace
ParseMembers(s, i, acc) ==
    IF i > Len(s) \/ s[i] # QUOTE THEN PFail
    ELSE LET key == ScanString(s, i + 1, <<>>)
         IN  IF ~key.ok THEN PFail
             ELSE LET c == SkipWs(s, key.pos)
                  IN  IF c > Len(s) \/ s[c] # ":" THEN PFail
                      ELSE LET m == ParseValue(s, SkipWs(s, c + 1))
                           IN  IF ~m.ok THEN PFail
                               ELSE LET j == SkipWs(s, m.pos)
                                        got == DictSet(acc, key.val.v, m.val)
                                    IN  IF j > Len(s) THEN PFail
                                        ELSE IF s[j] = "}" THEN POk(JObj(got), j + 1)
                                        ELSE IF s[j] = ","
                                             THEN ParseMembers(s, SkipWs(s, j + 1), got)
                                        ELSE PFail

\* json.loads(s): ok is FALSE where Python raises json.JSONDecodeError
json_loads(s) ==
    LET Whole(r) == IF r.ok /\ SkipWs(s, r.pos) = Len(s) + 1 THEN r ELSE PFail
    IN  Whole(ParseValue(s, SkipWs(s, 1)))

\* ------------------------------------------------------------- json.dumps

Indent(level) == [i \in 1..(4 * level) |-> SP]

RECURSIVE EscapeStr(_)
EscapeStr(s) ==
    IF Len(s) = 0 THEN <<>>
    ELSE (CASE s[1] = QUOTE -> <<BSLASH, QUOTE>>
            [] s[1] = BSLASH -> <<BSLASH, BSLASH>>
            [] s[1] = NL -> <<BSLASH, "n">>
            [] OTHER -> <<s[1]>>) \o EscapeStr(Tail(s))

DumpStr(s) == <<QUOTE>> \o EscapeStr(s) \o <<QUOTE>>

RECURSIVE DumpValue(_, _)
RECURSIVE DumpItems(_, _, _)

\* the items of a list (or the pairs of a dict), one per line at depth level
DumpItems(items, isDict, level) ==
    IF Len(items) = 0 THEN <<>>
    ELSE Indent(level)
         \o (IF isDict
             THEN DumpStr(items[1].k) \o <<":", SP>> \o DumpValue(items[1].v, level)
             ELSE DumpValue(items[1], level))
         \o (IF Len(items) > 1 THEN <<",", NL>> ELSE <<>>)
         \o DumpItems(Tail(items), isDict, level)

\* json.dumps(x, indent=4, ensure_ascii=False) of a value at nesting depth level
DumpValue(x, level) ==
    CASE x.t = "str" -> DumpStr(x.v)
      [] x.t = "num" -> NatToChars(x.v)
      [] x.t = "null" -> <<"n", "u", "l", "l">>
      [] x.t = "bool" -> IF x.v THEN <<"t", "r", "u", "e">> ELSE <<"f", "a", "l", "s", "e">>
      [] x.t = "arr" ->
            IF Len(x.v) = 0 THEN <<"[", "]">>
            ELSE <<"[", NL>> \o DumpItems(x.v, FALSE, level + 1)
                 \o <<NL>> \o Indent(level) \o <<"]">>
      [] x.t = "obj" ->
            IF Len(x.v) = 0 THEN <<"{", "}">>
            ELSE <<"{", NL>> \o DumpItems(x.v, TRUE, level + 1)
                 \o <<NL>> \o Indent(level) \o <<"}">>

json_dumps(x) == DumpValue(x, 0)

\* ------------------------------------------------- step-numbering normalizer

\* re.sub(r'^(\d+)\.\s+\1\.\s+', r'\1. ', s): the regular expression is
\* deterministic here, since each greedy run is ended by a character outside it
DupOrdinalSub(s) ==
    LET n == RunLen(s, 1, Digits)
        w1 == RunLen(s, n + 2, Whitespace)
        p2 == n + 2 + w1
        w2 == RunLen(s, p2 + n + 1, Whitespace)
        hit == /\ n > 0
               /\ Len(s) >= n + 1 /\ s[n + 1] = "."
               /\ w1 > 0
               /\ StartsWithAt(s, SubSeq(s, 1, n), p2 - 1)
               /\ Len(s) >= p2 + n /\ s[p2 + n] = "."
               /\ w2 > 0
    IN  IF hit
        THEN SubSeq(s, 1, n) \o <<".", SP>> \o SubSeq(s, p2 + n + 1 + w2, Len(s))
        ELSE s

\* clean_step_numbering(step_text) for a JSON value step_text:
\* [ok |-> FALSE] where Python raises AttributeError (no .strip())
clean_step_numbering(step_text) ==
    IF ~Truthy(step_text) THEN [ok |-> TRUE, val |-> step_text]
    ELSE IF step_text.t # "str" THEN [ok |-> FALSE, val |-> JNull]
    ELSE [ok |-> TRUE, val |-> JStr(DupOrdinalSub(Strip(step_text.v)))]

\* line 63: re.sub(r'^\d+\.\s*', '', s): a leading ordinal and the white space
\* after it are dropped; the pattern is anchored, so one ordinal at most
LeadOrdinalSub(s) ==
    LET n == RunLen(s, 1, Digits)
        w == RunLen(s, n + 2, Whitespace)
        hit == n > 0 /\ Len(s) >= n + 1 /\ s[n + 1] = "."
    IN  IF hit THEN SubSeq(s, n + 2 + w, Len(s)) ELSE s

\* lines 60-63; ok is FALSE when .strip() raises (a truthy non-str)
strip_step_numbering(step_text) ==
    IF ~Truthy(step_text) THEN [ok |-> TRUE, val |-> step_text]
    ELSE IF step_text.t # "str" THEN [ok |-> FALSE, val |-> JNull]
    ELSE [ok |-> TRUE, val |-> JStr(LeadOrdinalSub(Strip(step_text.v)))]

\* ------------------------------------------------------ parse_recipe_json

TITLE == <<"t", "i", "t", "l", "e">>
INGREDIENTS == <<"i", "n", "g", "r", "e", "d", "i", "e", "n", "t", "s">>
STEPS == <<"s", "t", "e", "p", "s">>
\* the character U+0060 (TLA+ strings cannot hold it)
BACKTICK == "backtick"
FENCE == <<BACKTICK, BACKTICK, BACKTICK>>
FENCE_JSON == FENCE \o <<"j", "s", "o", "n">>

\* outcomes of parse_recipe_json: a dict, None, or an exception that escapes
PRecord(x) == [kind |-> "record", val |-> x]
PNone == [kind |-> "None", val |-> JNull]
PRaise == [kind |-> "raise", val |-> JNull]

\* lines 17-21: strip, then drop a leading markdown fence
StripFence(response_text) ==
    LET Unfenced(text) ==
            IF StartsWith(text, FENCE_JSON)
            THEN Strip(SplitFirst(Slice(text, 7, Len(text)), FENCE))
            ELSE IF StartsWith(text, FENCE)
            THEN Strip(SplitFirst(Slice(text, 3, Len(text)), FENCE))
            ELSE text
    IN  Unfenced(Strip(response_text))

\* lines 25-34: the loop over text[start:], which counts every brace
\* character, also one inside a string; it is run here over the 1-based
\* positions of the brace characters from start on, the only ones it acts on;
\* [count, end] when the loop ends (end is 0-based, exclusive)
RECURSIVE BraceScan(_, _, _, _, _)
BraceScan(text, braces, k, brace_count, end) ==
    IF k > Len(braces) THEN [count |-> brace_count, end |-> end]
    ELSE IF text[braces[k]] = "{"
         THEN BraceScan(text, braces, k + 1, brace_count + 1, end)
         ELSE IF brace_count - 1 = 0
              THEN [count |-> 0, end |-> braces[k]]
              ELSE BraceScan(text, braces, k + 1, brace_count - 1, end)

\* lines 22-37: the candidate JSON substring of a text that holds a brace
ExtractJsonText(text) ==
    LET Braces(start) ==
            SelectSeq(Indices(text), LAMBDA i : i > start /\ text[i] \in {"{", "}"})
        End(scan) == IF scan.count # 0 THEN RFind(text, <<"}">>) + 1 ELSE scan.end
        From(start) == Slice(text, start, End(BraceScan(text, Braces(start), 1, 0, start)))
    IN  From(Find(text, <<"{">>))

\* lines 44: drop a comma written directly before a closing brace or bracket
RepairTrailingCommas(json_text) ==
    ReplaceDropFirst(ReplaceDropFirst(json_text, ",", "}"), ",", "]")

\* the iteration of recipe['steps'] by the list comprehension: ok is FALSE on TypeError
IterItems(x) ==
    CASE x.t = "arr" -> [ok |-> TRUE, items |-> x.v]
      [] x.t = "str" -> [ok |-> TRUE, items |-> [i \in 1..Len(x.v) |-> JStr(<<x.v[i]>>)]]
      [] x.t = "obj" -> [ok |-> TRUE, items |-> [i \in 1..Len(x.v) |-> JStr(x.v[i].k)]]
      [] OTHER -> [ok |-> FALSE, items |-> <<>>]

\* lines 40-42 and 47-49: the post-processing of a parsed dict;
\* ok is FALSE where the list comprehension raises
CleanSteps(recipe) ==
    IF ~HasKey(recipe, STEPS) THEN [ok |-> TRUE, val |-> recipe]
    ELSE LET Stored(it, cleaned) ==
                 IF ~it.ok \/ \E i \in 1..Len(cleaned) : ~cleaned[i].ok
                 THEN [ok |-> FALSE, val |-> JNull]
                 ELSE [ok |-> TRUE,
                       val |-> JObj(DictSet(recipe.v, STEPS,
                                            JArr([i \in 1..Len(cleaned) |-> cleaned[i].val])))]
             Each(it) ==
                 Stored(it, [i \in 1..Len(it.items) |-> clean_step_numbering(it.items[i])])
         IN  Each(IterItems(Get(recipe, STEPS, JNull)))

\* lines 39-42 and 46-49: the record after the post-processing, or what an
\* exception of the post-processing comes to
Returned(c, raised) == IF c.ok THEN PRecord(c.val) ELSE raised

\* the handler of json.JSONDecodeError without its inner try
LenientParseUncaught(json_text) ==
    LET Loaded(lenient) ==
            IF ~lenient.ok THEN PRaise ELSE Returned(CleanSteps(lenient.val), PRaise)
    IN  Loaded(json_loads(RepairTrailingCommas(json_text)))

\* lines 43-51: the handler of json.JSONDecodeError; its bare except
\* catches the second json.loads and the post-processing alike
LenientParse(json_text) ==
    LET Loaded(lenient) ==
            IF ~lenient.ok THEN PNone ELSE Returned(CleanSteps(lenient.val), PNone)
    IN  Loaded(json_loads(RepairTrailingCommas(json_text)))

\* lines 38-51: an exception of the first post-processing is no
\* json.JSONDecodeError and leaves the function
StrictParse(json_text) ==
    LET Loaded(strict) ==
            IF strict.ok THEN Returned(CleanSteps(strict.val), PRaise)
            ELSE LenientParse(json_text)
    IN  Loaded(json_loads(json_text))

\* parse_recipe_json(response_text)
parse_recipe_json(response_text) ==
    LET Stripped(text) ==
            IF Find(text, <<"{">>) = -1 THEN PNone ELSE StrictParse(ExtractJsonText(text))
    IN  Stripped(StripFence(response_text))

\* -------------------------------------------------- extract_schema_recipe

AT_TYPE == <<"@", "t", "y", "p", "e">>
AT_GRAPH == <<"@", "g", "r", "a", "p", "h">>
NAME == <<"n", "a", "m", "e">>
TEXT == <<"t", "e", "x", "t">>
RECIPE == <<"R", "e", "c", "i", "p", "e">>
RECIPE_INGREDIENT ==
    <<"r", "e", "c", "i", "p", "e", "I", "n", "g", "r", "e", "d", "i", "e", "n", "t">>
RECIPE_INSTRUCTIONS ==
    <<"r", "e", "c", "i", "p", "e", "I", "n", "s", "t", "r", "u", "c", "t", "i", "o", "n", "s">>
UNTITLED == <<"U", "n", "t", "i", "t", "l", "e", "d", SP>> \o RECIPE

\* s1 + s2 + ... for a sequence of texts, each followed by sep but the last
RECURSIVE Join(_, _)
Join(parts, sep) ==
    IF Len(parts) = 0 THEN <<>>
    ELSE IF Len(parts) = 1 THEN parts[1]
    ELSE parts[1] \o sep \o Join(Tail(parts), sep)

\* repr(s) of a str without an apostrophe
ReprStr(s) ==
    <<"'">> \o Join([i \in 1..Len(s) |->
                        CASE s[i] = BSLASH -> <<BSLASH, BSLASH>>
                          [] s[i] = NL -> <<BSLASH, "n">>
                          [] OTHER -> <<s[i]>>], <<>>) \o <<"'">>

\* repr(x)
RECURSIVE PyRepr(_)
PyRepr(x) ==
    CASE x.t = "str" -> ReprStr(x.v)
      [] x.t = "num" -> NatToChars(x.v)
      [] x.t = "null" -> <<"N", "o", "n", "e">>
      [] x.t = "bool" -> IF x.v THEN <<"T", "r", "u", "e">> ELSE <<"F", "a", "l", "s", "e">>
      [] x.t = "arr" ->
            <<"[">> \o Join([i \in 1..Len(x.v) |-> PyRepr(x.v[i])], <<",", SP>>) \o <<"]">>
      [] x.t = "obj" ->
            <<"{">> \o Join([i \in 1..Len(x.v) |->
                                ReprStr(x.v[i].k) \o <<":", SP>> \o PyRepr(x.v[i].v)],
                            <<",", SP>>) \o <<"}">>

\* str(x)
PyStr(x) == IF x.t = "str" THEN x.v ELSE PyRepr(x)

\* item.get('@type') == 'Recipe', for a dict item
IsRecipeTyped(item) == JEq(Get(item, AT_TYPE, JNull), JStr(RECIPE))

\* lines 77-80 (and 84-87): the candidates one dict contributes;
\* ok is FALSE where the comprehension over '@graph' raises
DictCandidates(d) ==
    LET own == IF IsRecipeTyped(d) THEN <<d>> ELSE <<>>
        it == IterItems(Get(d, AT_GRAPH, JNull))
    IN  IF ~HasKey(d, AT_GRAPH) THEN [ok |-> TRUE, items |-> own]
        ELSE IF ~it.ok \/ \E i \in 1..Len(it.items) : it.items[i].t # "obj"
        THEN [ok |-> FALSE, items |-> <<>>]
        ELSE [ok |-> TRUE, items |-> own \o SelectSeq(it.items, IsRecipeTyped)]

\* lines 82-87: the candidates of a list, dict by dict
RECURSIVE ListCandidates(_, _)
ListCandidates(items, acc) ==
    IF Len(items) = 0 THEN [ok |-> TRUE, items |-> acc]
    ELSE IF items[1].t # "obj" THEN ListCandidates(Tail(items), acc)
    ELSE LET c == DictCandidates(items[1])
         IN  IF ~c.ok THEN [ok |-> FALSE, items |-> <<>>]
             ELSE ListCandidates(Tail(items), acc \o c.items)

\* lines 75-87
Candidates(data) ==
    CASE data.t = "obj" -> DictCandidates(data)
      [] data.t = "arr" -> ListCandidates(data.v, <<>>)
      [] OTHER -> [ok |-> TRUE, items |-> <<>>]

\* lines 91-94
SchemaIngredients(rec) ==
    LET raw == Get(rec, RECIPE_INGREDIENT, JArr(<<>>))
        items == IF raw.t = "arr" THEN raw.v ELSE <<>>
        kept == SelectSeq(items, Truthy)
    IN  [i \in 1..Len(kept) |-> JStr(Strip(PyStr(kept[i])))]

\* lines 99-104: what one element of a recipeInstructions list appends to
\* steps; ok is FALSE where text.strip() raises
SchemaStep(step) ==
    IF step.t = "str" THEN [ok |-> TRUE, steps |-> <<JStr(Strip(step.v))>>]
    ELSE IF step.t = "obj"
    THEN LET a == Get(step, TEXT, JNull)
             b == Get(step, NAME, JNull)
             text == IF Truthy(a) THEN a ELSE IF Truthy(b) THEN b ELSE JStr(<<>>)
         IN  IF text.t = "str" THEN [ok |-> TRUE, steps |-> <<JStr(Strip(text.v))>>]
             ELSE [ok |-> FALSE, steps |-> <<>>]
    ELSE [ok |-> TRUE, steps |-> <<>>]

\* lines 96-106
SchemaSteps(rec) ==
    LET instructions == Get(rec, RECIPE_INSTRUCTIONS, JArr(<<>>))
    IN  IF instructions.t = "arr"
        THEN LET each == [i \in 1..Len(instructions.v) |-> SchemaStep(instructions.v[i])]
             IN  IF \E i \in 1..Len(each) : ~each[i].ok
                 THEN [ok |-> FALSE, steps |-> <<>>]
                 ELSE [ok |-> TRUE,
                       steps |-> Join([i \in 1..Len(each) |-> each[i].steps], <<>>)]
        ELSE IF instructions.t = "str"
        THEN [ok |-> TRUE, steps |-> <<JStr(Strip(instructions.v))>>]
        ELSE [ok |-> TRUE, steps |-> <<>>]

\* line 108: title != 'Untitled Recipe' and ingredients
Qualifies(title, ingredients) == ~JEq(title, JStr(UNTITLED)) /\ Len(ingredients) > 0

\* lines 109-113
SchemaRecord(title, ingredients, steps) ==
    JObj(<<[k |-> TITLE, v |-> title],
           [k |-> INGREDIENTS, v |-> JArr(ingredients)],
           [k |-> STEPS, v |-> JArr(SelectSeq(steps, Truthy))]>>)

\* lines 89-113: the loop over the candidates of one block;
\* found is FALSE when the loop ends, or an exception ends the block
RECURSIVE ScanCandidates(_)
ScanCandidates(cands) ==
    IF Len(cands) = 0 THEN [found |-> FALSE, val |-> JNull]
    ELSE LET rec == cands[1]
             title == Get(rec, NAME, JStr(UNTITLED))
             ingredients == SchemaIngredients(rec)
             st == SchemaSteps(rec)
         IN  IF ~st.ok THEN [found |-> FALSE, val |-> JNull]
             ELSE IF Qualifies(title, ingredients)
             THEN [found |-> TRUE, val |-> SchemaRecord(title, ingredients, st.steps)]
             ELSE ScanCandidates(Tail(cands))

\* lines 70-115: one script block, given its text
ScanBlock(content) ==
    IF Len(Strip(content)) = 0 THEN [found |-> FALSE, val |-> JNull]
    ELSE LET Listed(c) ==
                 IF ~c.ok THEN [found |-> FALSE, val |-> JNull] ELSE ScanCandidates(c.items)
             Loaded(data) ==
                 IF ~data.ok THEN [found |-> FALSE, val |-> JNull]
                 ELSE Listed(Candidates(data.val))
         IN  Loaded(json_loads(content))

\* extract_schema_recipe(soup), soup given as the texts of its
\* application/ld+json script blocks in document order
RECURSIVE extract_schema_recipe(_)
extract_schema_recipe(scripts) ==
    IF Len(scripts) = 0 THEN [found |-> FALSE, val |-> JNull]
    ELSE LET Block(r) == IF r.found THEN r ELSE extract_schema_recipe(Tail(scripts))
         IN  Block(ScanBlock(scripts[1]))

\* --------------------------------------------------- the recipe collection

\* ord(c) for the characters that occur in lower-cased titles of the model
CodePoint(c) ==
    CASE c = SP -> 32 [] c = QUOTE -> 34 [] c = "," -> 44 [] c = "." -> 46
      [] c = "1" -> 49 [] c = "2" -> 50 [] c = "5" -> 53
      [] c = "]" -> 93 [] c = "a" -> 97 [] c = "b" -> 98 [] c = "c" -> 99
      [] c = "m" -> 109 [] c = "t" -> 116 [] c = "x" -> 120 [] c = "y" -> 121
      [] c = "{" -> 123 [] c = "}" -> 125

\* a <= b of Python on two str
StrLeq(a, b) ==
    \/ Len(a) <= Len(b) /\ SubSeq(b, 1, Len(a)) = a
    \/ \E k \in 1..Len(a) :
          /\ k <= Len(b)
          /\ SubSeq(a, 1, k - 1) = SubSeq(b, 1, k - 1)
          /\ CodePoint(a[k]) < CodePoint(b[k])

\* the key without .lower()
TitleKeyCaseSensitive(r) == Get(r, TITLE, JNull).v

\* r['title'].lower(), for a dict r whose title is a str
TitleKey(r) == Lower(Get(r, TITLE, JNull).v)

\* r['title'].lower() evaluates: r is a dict, has the key, and it is a str
HasStrTitle(r) == r.t = "obj" /\ HasKey(r, TITLE) /\ Get(r, TITLE, JNull).t = "str"

\* line 414: the key of the sort, r.get('title', '').lower()
SortKey(r) == Lower(Get(r, TITLE, JStr(<<>>)).v)

\* list.sort(key=...) is stable: a record goes behind every record whose
\* key is not greater than its own
RECURSIVE SortedInsert(_, _)
SortedInsert(sorted, r) ==
    IF Len(sorted) = 0 THEN <<r>>
    ELSE LET last == sorted[Len(sorted)]
         IN  IF StrLeq(SortKey(last), SortKey(r)) THEN Append(sorted, r)
             ELSE Append(SortedInsert(SubSeq(sorted, 1, Len(sorted) - 1), r), last)

RECURSIVE StableSort(_)
StableSort(items) ==
    IF Len(items) = 0 THEN <<>>
    ELSE SortedInsert(StableSort(SubSeq(items, 1, Len(items) - 1)), items[Len(items)])

\* line 404: the set comprehension over the collection;
\* ok is FALSE where it raises
ExistingTitles(coll) ==
    LET it == IterItems(coll)
    IN  IF ~it.ok \/ \E i \in 1..Len(it.items) : ~HasStrTitle(it.items[i])
        THEN [ok |-> FALSE, titles |-> {}]
        ELSE [ok |-> TRUE, titles |-> {TitleKey(it.items[i]) : i \in 1..Len(it.items)}]

\* lines 406-410: the loop over new_recipes from a state
\* [coll, titles, added, crashed]; an exception leaves what was appended
RECURSIVE AddLoop(_, _)
AddLoop(todo, st) ==
    IF Len(todo) = 0 THEN st
    ELSE LET r == todo[1]
         IN  IF ~HasStrTitle(r) THEN [st EXCEPT !.crashed = TRUE]
             ELSE IF TitleKey(r) \in st.titles THEN AddLoop(Tail(todo), st)
             ELSE IF st.coll.t # "arr" THEN [st EXCEPT !.crashed = TRUE]
             ELSE AddLoop(Tail(todo),
                          [coll |-> JArr(Append(st.coll.v, r)),
                           titles |-> st.titles \cup {TitleKey(r)},
                           added |-> st.added + 1,
                           crashed |-> FALSE])

\* lines 403-417: dedupe and add, then sort when something was added
DedupeAndAddResult(coll, todo) ==
    LET Sorted(st) ==
            IF st.crashed \/ st.added = 0
            THEN [coll |-> st.coll, added |-> st.added, crashed |-> st.crashed]
            ELSE [coll |-> JArr(StableSort(st.coll.v)), added |-> st.added, crashed |-> FALSE]
        Looped(ex) ==
            IF ~ex.ok THEN [coll |-> coll, added |-> 0, crashed |-> TRUE]
            ELSE Sorted(AddLoop(todo, [coll |-> coll, titles |-> ex.titles,
                                       added |-> 0, crashed |-> FALSE]))
    IN  Looped(ExistingTitles(coll))

\* line 347 (also 384, 398): recipe and recipe.get('title')
\* and recipe.get('ingredients'), for the outcome of parse_recipe_json
PassesValidity(parsed) ==
    /\ parsed.kind = "record"
    /\ Truthy(parsed.val)
    /\ Truthy(Get(parsed.val, TITLE, JNull))
    /\ Truthy(Get(parsed.val, INGREDIENTS, JNull))

\* lines 346-350 (also 383-387, 397-401): what a backend response comes to:
\* failed when parse_recipe_json raises into the except of the source's try,
\* else the candidates it adds to new_recipes
FromResponse(response_text) ==
    LET Outcome(parsed) ==
            [failed |-> parsed.kind = "raise",
             candidates |-> IF PassesValidity(parsed) THEN <<parsed.val>> ELSE <<>>]
    IN  Outcome(parse_recipe_json(response_text))

\* lines 361-387: what a fetched page comes to, given the text the backend
\* answers when the fallback asks it
FromPage(scripts, response_text) ==
    LET Outcome(recipe) ==
            IF recipe.found /\ Truthy(recipe.val)
            THEN [failed |-> FALSE, candidates |-> <<recipe.val>>]
            ELSE FromResponse(response_text)
    IN  Outcome(extract_schema_recipe(scripts))

\* lines 421-431: the row of index i (1-based) is drawn with its Remove
\* button: the collection is a non-empty list and the loop, which runs from
\* the last row down, met a dict at every row so far
RowDrawn(coll, i) ==
    /\ coll.t = "arr"
    /\ i \in 1..Len(coll.v)
    /\ \A j \in i..Len(coll.v) : coll.v[j].t = "obj"

\* lines 433-452: the backup expander is drawn
BackupDrawn(coll) ==
    coll.t = "arr" /\ Len(coll.v) > 0 /\ \A j \in 1..Len(coll.v) : coll.v[j].t = "obj"

\* ------------------------------------------------------ inputs of the model

\* a JSON text without blanks, as a backend or a page may write it
RECURSIVE Compact(_)
Compact(x) ==
    CASE x.t = "str" -> DumpStr(x.v)
      [] x.t = "arr" ->
            <<"[">> \o Join([i \in 1..Len(x.v) |-> Compact(x.v[i])], <<",">>) \o <<"]">>
      [] x.t = "obj" ->
            <<"{">> \o Join([i \in 1..Len(x.v) |->
                                DumpStr(x.v[i].k) \o <<":">> \o Compact(x.v[i].v)],
                            <<",">>) \o <<"}">>
      [] OTHER -> DumpValue(x, 0)

StrList(texts) == JArr([i \in 1..Len(texts) |-> JStr(texts[i])])

\* the object a backend is asked for
Rec(title, ingredients, steps) ==
    JObj(<<[k |-> TITLE, v |-> title],
           [k |-> INGREDIENTS, v |-> ingredients],
           [k |-> STEPS, v |-> steps]>>)

RecAb ==
    Rec(JStr(<<"A", "b">>), StrList(<< <<"1", QUOTE, SP, "x">> >>),
        StrList(<< <<"1", ".", SP, "1", ".", SP, "M">> >>))
RecLowerUpper == Rec(JStr(<<"a", "B">>), StrList(<< <<"x">> >>), JArr(<<>>))
RecC == Rec(JStr(<<"C">>), StrList(<< <<"y">> >>), StrList(<< <<"M">> >>))
RecNoIngredients == Rec(JStr(<<"C">>), JArr(<<>>), StrList(<< <<"M">> >>))
RecNumberStep == Rec(JStr(<<"T">>), StrList(<< <<"x">> >>), JArr(<<JNum(1)>>))
RecNumberTitle == Rec(JNum(5), StrList(<< <<"x">> >>), JArr(<<>>))

\* line 346: response.choices[0].message.content for an image
ImageResponses == <<Compact(RecAb), Compact(RecNumberStep), Compact(RecNumberTitle)>>

\* line 383: the same for the text of a page
LinkResponses == <<Compact(RecLowerUpper), Compact(RecNoIngredients)>>

\* line 397: the same for the pasted text
TextResponses == <<Compact(RecC), <<"n", "o">>, Compact(RecLowerUpper)>>

SchemaBlock(pairs) == Compact(JObj(<<[k |-> AT_TYPE, v |-> JStr(RECIPE)]>> \o pairs))

\* line 358: the ld+json blocks of the fetched pages
LinkPages ==
    << <<SchemaBlock(<<[k |-> NAME, v |-> JStr(<<>>)],
                       [k |-> RECIPE_INGREDIENT, v |-> StrList(<< <<"x">> >>)]>>)>>,
       <<SchemaBlock(<<[k |-> NAME, v |-> JStr(<<"C">>)]>>)>>,
       <<>> >>

\* line 444: the uploaded backup files, beside the session's own export
BackupPayloads ==
    <<json_dumps(JArr(<<RecAb, RecLowerUpper>>)),
      SubSeq(json_dumps(JArr(<<RecC>>)), 1, 20),
      json_dumps(RecC),
      json_dumps(JArr(<<>>))>>

\* what each response, page and payload of the model comes to, worked out
\* once (the concatenation makes each a tuple of values)
ImageOutcomes ==
    [k \in 1..Len(ImageResponses) |-> FromResponse(ImageResponses[k])] \o <<>>

LinkOutcomes ==
    [n \in 1..(Len(LinkPages) * Len(LinkResponses)) |->
        FromPage(LinkPages[((n - 1) \div Len(LinkResponses)) + 1],
                 LinkResponses[((n - 1) % Len(LinkResponses)) + 1])] \o <<>>

TextOutcomes ==
    [k \in 1..Len(TextResponses) |-> FromResponse(TextResponses[k])] \o <<>>

Backups ==
    LET Loaded(payloads) ==
            [k \in 1..Len(payloads) |->
                [payload |-> payloads[k], imported |-> json_loads(payloads[k])]]
    IN  Loaded(BackupPayloads) \o <<>>

\* objects a backend may answer a parser call with
RecBraceTitle == Rec(JStr(<<"a", "}">>), StrList(<< <<"x">> >>), JArr(<<>>))
RecCommaTitle == Rec(JStr(<<"a", ",", "]", "b">>), StrList(<< <<"x">> >>), JArr(<<>>))
RecPaddedStep == Rec(JStr(<<"T">>), StrList(<< <<"x">> >>), StrList(<< <<SP, "M", SP>> >>))

ParseSources ==
    <<RecAb, RecBraceTitle, RecNumberStep, RecCommaTitle, RecPaddedStep, RecC>>

\* what a backend writes between the last item and the closer
Trail(style) ==
    CASE style = "none" -> <<>>
      [] style = "tight" -> <<",">>
      [] style = "blank" -> <<",", SP>>
      [] style = "newline" -> <<",", NL>>

TrailStyles == {"tight", "blank", "newline"}

\* a list of the object in the backend's text
WriteList(x, style) ==
    <<"[">> \o Join([i \in 1..Len(x.v) |-> Compact(x.v[i])], <<",">>)
            \o (IF Len(x.v) = 0 THEN <<>> ELSE Trail(style)) \o <<"]">>

\* line 346: response.choices[0].message.content for the object rec,
\* with the trailing commas and the cut of e
WriteRecipe(rec, e) ==
    LET whole ==
            <<"{">> \o DumpStr(TITLE) \o <<":">> \o Compact(Get(rec, TITLE, JNull))
            \o <<",">> \o DumpStr(INGREDIENTS) \o <<":">>
            \o WriteList(Get(rec, INGREDIENTS, JNull), e.ingredients)
            \o <<",">> \o DumpStr(STEPS) \o <<":">>
            \o WriteList(Get(rec, STEPS, JNull), e.steps)
            \o Trail(e.object) \o <<"}">>
    IN  SubSeq(whole, 1, Len(whole) - e.cut)

MaxImages == 1
MaxLinks == 1
MaxCut == 3
\* the longest step line, in characters
MaxLine == 10
\* the ld+json blocks of a page, and the entries of a list or graph block
MaxBlocks == 2
MaxEntries == 2

\* -------------------------------------------------------------- the session

VARIABLES
    recipes,         \* st.session_state.recipes, a JSON value
    pc,              \* where the extract handler stands; "idle" between handlers
    uploaded_files,  \* the number of image items of the running batch
    recipe_links,    \* the number of link items of the running batch
    text_input,      \* whether the running batch has free text
    idx,             \* the items of the running loop that are done
    new_recipes,     \* line 329: the candidates of the running batch
    attempted,       \* the sources the batch has entered the try block of
    added,           \* line 405
    message,         \* what the last handler wrote with st.success / error / info
    backup_file,     \* line 444: the payload of the last upload
    phase,           \* a function alone: "ready", then what was applied
    source,          \* the parser alone: the object the backend writes
    edits,           \* the parser alone: how the backend's text departs from JSON
    input,           \* a function alone: its argument
    result           \* a function alone: what it returned for input

sessionVars ==
    <<recipes, pc, uploaded_files, recipe_links, text_input, idx, new_recipes,
      attempted, added, message, backup_file>>
parserVars == <<phase, source, edits, input, result>>
vars == <<sessionVars, parserVars>>

SessionInit ==
    /\ recipes = JArr(<<>>)
    /\ pc = "idle"
    /\ uploaded_files = 0
    /\ recipe_links = 0
    /\ text_input = FALSE
    /\ idx = 0
    /\ new_recipes = <<>>
    /\ attempted = <<>>
    /\ added = 0
    /\ message = "none"
    /\ backup_file = <<>>

\* the text as written: no trailing comma at the three closers, nothing cut
NoEdits == [ingredients |-> "none", steps |-> "none", object |-> "none", cut |-> 0]

ParserIdle ==
    /\ phase = "ready"
    /\ source = JNull
    /\ edits = NoEdits
    /\ input = <<>>
    /\ result = PNone

Init == SessionInit /\ ParserIdle

\* lines 332-401: where the handler goes once i items of a loop are done:
\* on to the next item, else to the first later loop that has items, else
\* to line 404 ("start" is line 329, before the first loop)
NextPc(loop, i, nImages, nLinks, hasText) ==
    LET afterLinks == IF hasText THEN "text" ELSE "dedupe"
        afterImages == IF nLinks > 0 THEN "links" ELSE afterLinks
    IN  CASE loop = "start" -> IF nImages > 0 THEN "images" ELSE afterImages
          [] loop = "images" -> IF i < nImages THEN "images" ELSE afterImages
          [] loop = "links" -> IF i < nLinks THEN "links" ELSE afterLinks
          [] loop = "text" -> "dedupe"

\* an except clause that ends the handler
AfterFailureAbort(next) == "idle"

\* lines 349-350, 386-387, 400-401: the except clause of a source's try
\* block reports the failure and the handler carries on
AfterFailure(next) == next

\* the except of a source's try: nothing is appended
Raised == [failed |-> TRUE, candidates |-> <<>>]

\* one pass of a source loop's body: the source is logged as attempted, its
\* candidates (none after a failure) join new_recipes, the handler moves on
SourceStep(loop, outcome) ==
    LET next == NextPc(loop, idx + 1, uploaded_files, recipe_links, text_input)
    IN  /\ attempted' = Append(attempted, <<loop, idx + 1>>)
        /\ new_recipes' = IF outcome.failed THEN new_recipes
                          ELSE new_recipes \o outcome.candidates
        /\ pc' = IF outcome.failed THEN AfterFailure(next) ELSE next
        /\ idx' = IF pc' = loop THEN idx + 1 ELSE 0
        /\ UNCHANGED <<recipes, uploaded_files, recipe_links, text_input, added,
                       message, backup_file>>
        /\ UNCHANGED parserVars

\* the source answers with one of the outcomes of the model
AnyOutcome(loop, outcomes) == \E k \in 1..Len(outcomes) : SourceStep(loop, outcomes[k])

\* lines 324-329: the extract button with nothing to extract, or the start
\* of a batch of nImages photos, nLinks links and maybe a pasted text
ExtractButton(nImages, nLinks, hasText) ==
    /\ pc = "idle"
    /\ uploaded_files' = nImages
    /\ recipe_links' = nLinks
    /\ text_input' = hasText
    /\ idx' = 0
    /\ new_recipes' = <<>>
    /\ attempted' = <<>>
    /\ added' = 0
    /\ backup_file' = <<>>
    /\ IF nImages = 0 /\ nLinks = 0 /\ ~hasText
       THEN pc' = "idle" /\ message' = "Please add something first."
       ELSE pc' = NextPc("start", 0, nImages, nLinks, hasText) /\ message' = "none"
    /\ UNCHANGED recipes
    /\ UNCHANGED parserVars

\* lines 332-350: one photo; Image.open or the backend may raise
ProcessImage ==
    /\ pc = "images"
    /\ \/ SourceStep("images", Raised)
       \/ AnyOutcome("images", ImageOutcomes)

\* lines 353-387: one link; the fetch, the page or the backend may raise
ProcessLink ==
    /\ pc = "links"
    /\ \/ SourceStep("links", Raised)
       \/ AnyOutcome("links", LinkOutcomes)

\* lines 390-401: the pasted text; the backend may raise
ProcessText ==
    /\ pc = "text"
    /\ \/ SourceStep("text", Raised)
       \/ AnyOutcome("text", TextOutcomes)

\* lines 403-417: dedupe and add; an exception ends the run of the script
\* with what was appended so far
DedupeAndAdd ==
    /\ pc = "dedupe"
    /\ LET Store(r) ==
               /\ recipes' = r.coll
               /\ added' = r.added
               /\ message' = IF r.crashed THEN "exception"
                             ELSE IF r.added > 0 THEN "Added new recipe(s)!"
                             ELSE "No new recipes added"
       IN  Store(DedupeAndAddResult(recipes, new_recipes))
    /\ pc' = "idle"
    /\ UNCHANGED <<uploaded_files, recipe_links, text_input, idx, new_recipes,
                   attempted, backup_file>>
    /\ UNCHANGED parserVars

\* the locals of the extract handler are gone when another handler runs
ForgetBatch ==
    /\ uploaded_files' = 0
    /\ recipe_links' = 0
    /\ text_input' = FALSE
    /\ idx' = 0
    /\ new_recipes' = <<>>
    /\ attempted' = <<>>
    /\ added' = 0

\* lines 429-431: the Remove button of row i (1-based)
Remove(i) ==
    /\ pc = "idle"
    /\ RowDrawn(recipes, i)
    /\ recipes' = JArr(SubSeq(recipes.v, 1, i - 1) \o SubSeq(recipes.v, i + 1, Len(recipes.v)))
    /\ message' = "none"
    /\ backup_file' = <<>>
    /\ ForgetBatch
    /\ UNCHANGED pc
    /\ UNCHANGED parserVars

\* lines 448-452: st.rerun() of line 450 stands inside the try whose bare
\* except also catches the exception st.rerun() leaves by, where the
\* installed streamlit raises one: the last message is then the error
RestoredMessages == {"Progress restored!", "Invalid backup file"}

\* an import that extends the collection by the list it read
ImportBackupMerging(payload, imported) ==
    /\ pc = "idle"
    /\ BackupDrawn(recipes)
    /\ recipes' = IF ~imported.ok THEN recipes
                  ELSE IF imported.val.t = "arr" THEN JArr(recipes.v \o imported.val.v)
                  ELSE imported.val
    /\ message' \in IF imported.ok THEN RestoredMessages ELSE {"Invalid backup file"}
    /\ backup_file' = payload
    /\ ForgetBatch
    /\ UNCHANGED pc
    /\ UNCHANGED parserVars

\* lines 444-452: a backup file is uploaded; imported is json.load of it
ImportBackup(payload, imported) ==
    /\ pc = "idle"
    /\ BackupDrawn(recipes)
    /\ recipes' = IF imported.ok THEN imported.val ELSE recipes
    /\ message' \in IF imported.ok THEN RestoredMessages ELSE {"Invalid backup file"}
    /\ backup_file' = payload
    /\ ForgetBatch
    /\ UNCHANGED pc
    /\ UNCHANGED parserVars

\* the file uploaded is the one the Download button of line 437 gave
ImportOwnExport ==
    ImportBackup(json_dumps(recipes), json_loads(json_dumps(recipes)))

Next ==
    \/ \E nImages \in 0..MaxImages, nLinks \in 0..MaxLinks, hasText \in BOOLEAN :
          ExtractButton(nImages, nLinks, hasText)
    \/ ProcessImage
    \/ ProcessLink
    \/ ProcessText
    \/ DedupeAndAdd
    \/ \E i \in 1..Len(recipes.v) : Remove(i)
    \/ \E k \in 1..Len(Backups) : ImportBackup(Backups[k].payload, Backups[k].imported)
    \/ ImportOwnExport

Spec == Init /\ [][Next]_vars

\* lines 329-404: the handler is straight-line code over finite loops whose
\* calls return or raise (line 356 sets a timeout): a source that is due is
\* processed
FairSpec ==
    /\ Spec
    /\ WF_vars(ProcessImage)
    /\ WF_vars(ProcessLink)
    /\ WF_vars(ProcessText)

\* ------------------------------------------------------- the parser alone

InitP ==
    /\ SessionInit
    /\ phase = "ready"
    /\ \E k \in 1..Len(ParseSources) : source = ParseSources[k]
    /\ edits = NoEdits
    /\ input = WriteRecipe(source, NoEdits)
    /\ result = PNone

\* the backend leaves a trailing comma before one of the three closers
AddTrailingComma(site, style) ==
    /\ phase = "ready"
    /\ edits[site] = "none"
    /\ site = "ingredients" => Len(Get(source, INGREDIENTS, JNull).v) > 0
    /\ site = "steps" => Len(Get(source, STEPS, JNull).v) > 0
    /\ edits' = [edits EXCEPT ![site] = style]
    /\ input' = WriteRecipe(source, edits')
    /\ UNCHANGED <<phase, source, result>>
    /\ UNCHANGED sessionVars

\* max_tokens (line 344) ends the backend's text k characters early
Truncate(k) ==
    /\ phase = "ready"
    /\ edits.cut = 0
    /\ edits' = [edits EXCEPT !.cut = k]
    /\ input' = WriteRecipe(source, edits')
    /\ UNCHANGED <<phase, source, result>>
    /\ UNCHANGED sessionVars

\* line 346: the call
Parse ==
    /\ phase = "ready"
    /\ result' = parse_recipe_json(input)
    /\ phase' = "parsed"
    /\ UNCHANGED <<source, edits, input>>
    /\ UNCHANGED sessionVars

NextP ==
    \/ \E site \in {"ingredients", "steps", "object"}, style \in TrailStyles :
          AddTrailingComma(site, style)
    \/ \E k \in 1..MaxCut : Truncate(k)
    \/ Parse

ParseSpec == InitP /\ [][NextP]_vars

\* -------------------------------------------------- the normalizers alone

\* the text of a step after its ordinals
StepBodies == {<<>>, <<"M">>}
\* the digits of an ordinal
Ordinals == {<<"1">>, <<"2">>, <<"1", "2">>}
\* n blanks
Blanks(n) == [i \in 1..n |-> SP]

InitN ==
    /\ SessionInit
    /\ phase = "ready"
    /\ source = JNull
    /\ edits = NoEdits
    /\ input \in StepBodies
    /\ result = JNull

\* the backend numbers the step once more: digits, a dot and w blanks
\* before what the line holds
WriteOrdinal(digits, w) ==
    /\ phase = "ready"
    /\ Len(digits) + 1 + w + Len(input) <= MaxLine
    /\ input' = digits \o <<".">> \o Blanks(w) \o input
    /\ UNCHANGED <<phase, source, edits, result>>
    /\ UNCHANGED sessionVars

\* lines 41 and 48: clean_step_numbering(s), applied to the line and then
\* to what it returned: after the second call input holds the first result
Clean ==
    /\ phase \in {"ready", "cleaned"}
    /\ LET Call(step_text) ==
               /\ input' = step_text.v
               /\ result' = clean_step_numbering(step_text).val
       IN  Call(IF phase = "ready" THEN JStr(input) ELSE result)
    /\ phase' = IF phase = "ready" THEN "cleaned" ELSE "cleaned twice"
    /\ UNCHANGED <<source, edits>>
    /\ UNCHANGED sessionVars

\* lines 214 and 277: strip_step_numbering(step), applied to the line and
\* then to what it returned
StripOrdinal ==
    /\ phase \in {"ready", "stripped"}
    /\ LET Call(step_text) ==
               /\ input' = step_text.v
               /\ result' = strip_step_numbering(step_text).val
       IN  Call(IF phase = "ready" THEN JStr(input) ELSE result)
    /\ phase' = IF phase = "ready" THEN "stripped" ELSE "stripped twice"
    /\ UNCHANGED <<source, edits>>
    /\ UNCHANGED sessionVars

NextN ==
    \/ \E digits \in Ordinals, w \in 0..2 : WriteOrdinal(digits, w)
    \/ Clean
    \/ StripOrdinal

NormSpec == InitN /\ [][NextN]_vars

\* ---------------------------------------------------- the extractor alone

\* an entry of a structured-data block, with its declared type
Entry(type, pairs) == JObj(<<[k |-> AT_TYPE, v |-> JStr(type)]>> \o pairs)

\* the entries the pages of the model are made of: two recipes in full, one
\* without ingredients, one without a name, one whose instructions hold a
\* step object with a number for its text, and one of another type
Entries ==
    <<Entry(RECIPE, <<[k |-> NAME, v |-> JStr(<<"A">>)],
                      [k |-> RECIPE_INGREDIENT, v |-> StrList(<< <<"x">> >>)],
                      [k |-> RECIPE_INSTRUCTIONS, v |-> StrList(<< <<"s">> >>)]>>),
      Entry(RECIPE, <<[k |-> NAME, v |-> JStr(<<"B">>)],
                      [k |-> RECIPE_INGREDIENT, v |-> StrList(<< <<"y">> >>)]>>),
      Entry(RECIPE, <<[k |-> NAME, v |-> JStr(<<"C">>)]>>),
      Entry(RECIPE, <<[k |-> RECIPE_INGREDIENT, v |-> StrList(<< <<"x">> >>)]>>),
      Entry(RECIPE, <<[k |-> NAME, v |-> JStr(<<"D">>)],
                      [k |-> RECIPE_INGREDIENT, v |-> StrList(<< <<"x">> >>)],
                      [k |-> RECIPE_INSTRUCTIONS,
                       v |-> JArr(<<JObj(<<[k |-> TEXT, v |-> JNum(1)]>>)>>)]>>),
      Entry(<<"T">>, <<[k |-> NAME, v |-> JStr(<<"E">>)],
                       [k |-> RECIPE_INGREDIENT, v |-> StrList(<< <<"x">> >>)]>>)>>

\* a block that holds its entries in a list, or in the graph of an object
EmptyBlock(shape) ==
    IF shape = "list" THEN JArr(<<>>)
    ELSE JObj(<<[k |-> AT_GRAPH, v |-> JArr(<<>>)]>>)

\* the entries of such a block
BlockEntries(data) == IF data.t = "arr" THEN data.v ELSE Get(data, AT_GRAPH, JNull).v

\* the block with one entry more
WithEntry(data, e) ==
    IF data.t = "arr" THEN JArr(Append(data.v, e))
    ELSE JObj(DictSet(data.v, AT_GRAPH, JArr(Append(BlockEntries(data), e))))

\* line 71: script.string of the blocks; a block that is no JSON (JNull
\* here) reads "{"
ScriptTexts(blocks) ==
    [b \in 1..Len(blocks) |-> IF blocks[b].t = "null" THEN <<"{">> ELSE Compact(blocks[b])]

InitS ==
    /\ SessionInit
    /\ phase = "ready"
    /\ source = JArr(<<>>)
    /\ edits = NoEdits
    /\ input = <<>>
    /\ result = [found |-> FALSE, val |-> JNull]

\* what a block may be when it is written: one object, a list or a graph
\* without entries so far, or a text that is no JSON
NewBlocks == Entries \o <<EmptyBlock("list"), EmptyBlock("graph"), JNull>>

\* the page holds one block more, written as JSON text
AddBlock(k) ==
    /\ phase = "ready"
    /\ Len(source.v) < MaxBlocks
    /\ source' = JArr(Append(source.v, NewBlocks[k]))
    /\ input' = ScriptTexts(source'.v)
    /\ UNCHANGED <<phase, edits, result>>
    /\ UNCHANGED sessionVars

\* the last block, a list or a graph, holds one entry more
AddEntry(e) ==
    /\ phase = "ready"
    /\ Len(source.v) > 0
    /\ LET b == Len(source.v)
           Grown(data) ==
               /\ data.t = "arr" \/ (data.t = "obj" /\ HasKey(data, AT_GRAPH))
               /\ Len(BlockEntries(data)) < MaxEntries
               /\ source' = JArr([source.v EXCEPT ![b] = WithEntry(data, Entries[e])])
       IN  Grown(source.v[b])
    /\ input' = ScriptTexts(source'.v)
    /\ UNCHANGED <<phase, edits, result>>
    /\ UNCHANGED sessionVars

\* line 361: the call
Extract ==
    /\ phase = "ready"
    /\ result' = extract_schema_recipe(input)
    /\ phase' = "extracted"
    /\ UNCHANGED <<source, edits, input>>
    /\ UNCHANGED sessionVars

NextS ==
    \/ \E k \in 1..Len(NewBlocks) : AddBlock(k)
    \/ \E e \in 1..Len(Entries) : AddEntry(e)
    \/ Extract

SchemaSpec == InitS /\ [][NextS]_vars

\* ------------------------------------------------ properties of the session

\* the records of coll are dicts whose title is a str
StrTitled(items) == \A i \in 1..Len(items) : HasStrTitle(items[i])

\* the lower-cased title of a record, written out
LowerTitle(r) == Lower(Get(r, TITLE, JNull).v)

\* how often the value x occurs in the sequence items
Count(items, x) == Cardinality({i \in 1..Len(items) : JEq(items[i], x)})

\* a and b hold the same values, each as often
SameRecords(a, b) ==
    /\ Len(a) = Len(b)
    /\ \A i \in 1..Len(a) : Count(a, a[i]) = Count(b, a[i])

\* C1: in every reachable state of the collection no two records have
\* titles that are equal when lower-cased
C1_NoDuplicateTitles ==
    (recipes.t = "arr" /\ StrTitled(recipes.v))
        => \A i, j \in 1..Len(recipes.v) :
              i < j => LowerTitle(recipes.v[i]) # LowerTitle(recipes.v[j])

\* a record is valid: a non-empty title and a non-empty ingredients sequence
ValidRecord(r) ==
    /\ r.t = "obj"
    /\ Truthy(Get(r, TITLE, JNull))
    /\ Truthy(Get(r, INGREDIENTS, JNull))

\* C2: a candidate of any extraction path becomes part of the collection
\* only if its title and its ingredients are non-empty: every record the
\* dedupe-and-add step of a batch puts into the collection is valid
C2_OnlyValidStored ==
    [][(pc = "dedupe" /\ recipes.t = "arr" /\ recipes'.t = "arr")
          => \A i \in 1..Len(recipes'.v) :
                Count(recipes'.v, recipes'.v[i]) > Count(recipes.v, recipes'.v[i])
                    => ValidRecord(recipes'.v[i])]_vars

\* the candidates of the batch that bring a lower-cased title the collection
\* has not and no earlier candidate of the batch has
FirstFresh(coll, batch) ==
    SelectSeq(Indices(batch),
              LAMBDA i : /\ \A j \in 1..Len(coll) : LowerTitle(coll[j]) # LowerTitle(batch[i])
                         /\ \A j \in 1..(i - 1) : LowerTitle(batch[j]) # LowerTitle(batch[i]))

FreshTitles(coll, batch) ==
    {LowerTitle(batch[i]) : i \in 1..Len(batch)} \ {LowerTitle(coll[j]) : j \in 1..Len(coll)}

ExpectedOrder(nImages, nLinks, hasText) ==
    [i \in 1..nImages |-> <<"images", i>>]
    \o [i \in 1..nLinks |-> <<"links", i>>]
    \o (IF hasText THEN << <<"text", 1>> >> ELSE <<>>)

\* C4: the sources of a batch are attempted in the order images, links,
\* text, whatever failed; a running batch ends only by the dedupe-and-add
\* step, which begins when every source has been attempted, and every
\* running batch reaches that step
C4_SourcesInOrder ==
    /\ (pc \notin {"idle", "dedupe"}) ~> (pc = "dedupe")
    /\ [][/\ (pc # "idle" /\ pc' = "idle") => pc = "dedupe"
          /\ pc' \notin {"idle", "dedupe"}
                => \E n \in 0..Len(ExpectedOrder(uploaded_files', recipe_links',
                                                 text_input')) :
                      attempted' = SubSeq(ExpectedOrder(uploaded_files', recipe_links',
                                                        text_input'), 1, n)
          /\ pc' = "dedupe"
                => attempted' = ExpectedOrder(uploaded_files', recipe_links',
                                              text_input')]_vars

\* a batch of a photo, a link and a text reaches dedupe-and-add though no
\* source gave a candidate
C4_Witness ==
    /\ pc = "dedupe"
    /\ attempted = << <<"images", 1>>, <<"links", 1>>, <<"text", 1>> >>
    /\ new_recipes = <<>>

\* ------------------------------------------------- properties of the parser

\* x is a list of str
IsStrList(x) == x.t = "arr" /\ \A i \in 1..Len(x.v) : x.v[i].t = "str"

\* rec is a recipe object: a text title, ingredient lines and step lines
IsRecipeObject(rec) ==
    /\ rec.t = "obj"
    /\ Get(rec, TITLE, JNull).t = "str"
    /\ IsStrList(Get(rec, INGREDIENTS, JNull))
    /\ IsStrList(Get(rec, STEPS, JNull))

\* rec with the duplicate ordinal of each step repaired and nothing else changed
OrdinalsRepaired(rec) ==
    Rec(Get(rec, TITLE, JNull), Get(rec, INGREDIENTS, JNull),
        JArr([i \in 1..Len(Get(rec, STEPS, JNull).v) |->
                 JStr(DupOrdinalSub(Get(rec, STEPS, JNull).v[i].v))]))

\* C5: for a text that is exactly a valid JSON recipe object,
\* parse_recipe_json returns a record with the title, ingredients and steps
\* of the input, the steps differing by the duplicate-ordinal repair only
C5_ExactObjectParsed ==
    (phase = "parsed" /\ edits = NoEdits /\ IsRecipeObject(source))
        => /\ result.kind = "record"
           /\ JEq(result.val, OrdinalsRepaired(source))

\* C6: parse_recipe_json returns a record or None for every text and never
\* raises to its caller
C6_NeverRaises == phase = "parsed" => result.kind # "raise"

\* json.loads fails on the candidate substring of the text and on its repair
BothParsesFail(response_text) ==
    LET Fails(json_text) ==
            /\ ~json_loads(json_text).ok
            /\ ~json_loads(RepairTrailingCommas(json_text)).ok
        Stripped(text) == Find(text, <<"{">>) # -1 /\ Fails(ExtractJsonText(text))
    IN  Stripped(StripFence(response_text))

\* the quoted value that follows the first "title" key of the text:
\* [ok, title], ok only for a non-empty value with its closing quote
TitleMatch(text) ==
    LET Value(i) ==
            LET n == RunLen(text, i, {c \in {text[k] : k \in 1..Len(text)} : c # QUOTE})
            IN  [ok |-> n > 0 /\ i + n <= Len(text), title |-> SubSeq(text, i, i + n - 1)]
        Colon(i) ==
            IF i <= Len(text) /\ text[i] = ":"
               /\ SkipWs(text, i + 1) <= Len(text) /\ text[SkipWs(text, i + 1)] = QUOTE
            THEN Value(SkipWs(text, i + 1) + 1)
            ELSE [ok |-> FALSE, title |-> <<>>]
        Key(k) ==
            IF k = -1 THEN [ok |-> FALSE, title |-> <<>>]
            ELSE Colon(SkipWs(text, k + Len(DumpStr(TITLE)) + 1))
    IN  Key(Find(text, DumpStr(TITLE)))

C8_TrailingCommasRepaired ==
    (/\ phase = "parsed"
     /\ edits.cut = 0 /\ edits # NoEdits
     /\ IsRecipeObject(source)
     /\ parse_recipe_json(WriteRecipe(source, NoEdits)).kind = "record")
        => /\ result.kind = "record"
           /\ JEq(result.val, parse_recipe_json(WriteRecipe(source, NoEdits)).val)

\* -------------------------------------------------- properties of the backup

\* the payload is a well-formed serialized list of recipe records
WellFormedBackup(payload) ==
    LET Listed(imported) ==
            /\ imported.ok
            /\ imported.val.t = "arr"
            /\ \A i \in 1..Len(imported.val.v) : IsRecipeObject(imported.val.v[i])
    IN  Listed(json_loads(payload))

\* C9: an import of a payload that is not a well-formed serialized list of
\* recipe records signals the error and leaves the collection as it was
C9_MalformedImportRejected ==
    [][(backup_file' # <<>> /\ ~WellFormedBackup(backup_file'))
          => /\ JEq(recipes', recipes)
             /\ message' = "Invalid backup file"]_vars

\* C10: importing the export of the collection gives a collection identical
\* to the exported one: the same records in the same order, each with the
\* same title, ingredients and steps
C10_ExportImportRoundTrip ==
    [][(backup_file' # <<>> /\ backup_file' = json_dumps(recipes))
          => JEq(recipes', recipes)]_vars

\* the session's own export of two extracted records, one with a quote in
\* an ingredient line and a repaired step (no uploaded file of the model
\* holds it), has been imported
C10_Witness ==
    /\ backup_file # <<>>
    /\ backup_file = json_dumps(recipes)
    /\ recipes.t = "arr"
    /\ Len(recipes.v) = 2
    /\ \E i \in 1..2 :
          /\ recipes.v[i].t = "obj"
          /\ JEq(recipes.v[i], OrdinalsRepaired(RecAb))

\* ------------------------------------------- properties of the normalizers

\* C11: both normalizers are idempotent on every text line: a second call of
\* clean_step_numbering, and a second call of strip_step_numbering, returns
\* its argument (the result of the first call) unchanged, also for lines
\* that begin with three ordinals or with two different ordinals
C11_NormalizersIdempotent ==
    /\ phase = "cleaned twice" => result = JStr(input)
    /\ phase = "stripped twice" => result = JStr(input)

\* --------------------------------------------- properties of the extractor

\* the Recipe-typed entries among items, in their order
TypedEntries(items) ==
    SelectSeq(items, LAMBDA x : x.t = "obj" /\ IsRecipeTyped(x))

\* the Recipe-typed candidates of one block: the object itself, then the
\* entries of its graph; for a list, the same of each object of the list
BlockCandidates(data) ==
    LET OfObject(d) ==
            TypedEntries(<<d>>) \o
            (IF Get(d, AT_GRAPH, JNull).t = "arr" THEN TypedEntries(Get(d, AT_GRAPH, JNull).v)
             ELSE <<>>)
    IN  CASE data.t = "obj" -> OfObject(data)
          [] data.t = "arr" ->
                Join([i \in 1..Len(data.v) |->
                         IF data.v[i].t = "obj" THEN OfObject(data.v[i]) ELSE <<>>], <<>>)
          [] OTHER -> <<>>

\* the candidates of a page, block after block
PageCandidates(blocks) == Join([b \in 1..Len(blocks) |-> BlockCandidates(blocks[b])], <<>>)

\* the title of the candidate is not the sentinel and its ingredient list,
\* coerced, is not empty
Qualifying(rec) == Qualifies(Get(rec, NAME, JStr(UNTITLED)), SchemaIngredients(rec))

\* the record has the title and the ingredients of the candidate, and its
\* steps where the instructions of the candidate can be read
BuiltFrom(record, rec) ==
    /\ JEq(Get(record, TITLE, JNull), Get(rec, NAME, JStr(UNTITLED)))
    /\ JEq(Get(record, INGREDIENTS, JNull), JArr(SchemaIngredients(rec)))
    /\ SchemaSteps(rec).ok =>
           JEq(Get(record, STEPS, JNull), JArr(SelectSeq(SchemaSteps(rec).steps, Truthy)))

\* C12: extract_schema_recipe returns the record built from the first
\* candidate, in document order over blocks and their Recipe-typed entries,
\* whose title is not "Untitled Recipe" and whose ingredient list is not
\* empty, whatever follows it; it returns nothing exactly when no candidate
\* of any block qualifies
C12_FirstQualifyingReturned ==
    phase = "extracted" =>
        LET First(q) ==
                IF Len(q) = 0 THEN ~result.found
                ELSE result.found /\ BuiltFrom(result.val, q[1])
        IN  First(SelectSeq(PageCandidates(source.v), Qualifying))

====
